---- MODULE Spec2Model ----
(***************************************************************************)
(* File-set resolution of package bufbuild (provider).                     *)
(*                                                                         *)
(* A path is a sequence of one-character strings, so that the path         *)
(* utilities (Ext, Dir, Rel, NormalizeAndValidate, MapMatches) and         *)
(* sort.Strings are computed character by character and not assumed.       *)
(***************************************************************************)
EXTENDS Integers, Sequences, FiniteSets, TLC

(***************************************************************************)
(* Bounds of the model.                                                    *)
(***************************************************************************)
\* largest number of files a bucket holds
MaxFiles == 3
\* largest number of explicitly named real file paths
MaxPaths == 3

(***************************************************************************)
(* Strings.                                                                *)
(***************************************************************************)
Chars == {".", "/", "O", "P", "R", "T", "a", "b", "o", "p", "q", "r", "t", "x"}

\* byte value of a character: what Go's string comparison compares
Code == [c \in Chars |->
           CASE c = "." -> 46 [] c = "/" -> 47
             [] c = "O" -> 79 [] c = "P" -> 80 [] c = "R" -> 82 [] c = "T" -> 84
             [] c = "a" -> 97 [] c = "b" -> 98 [] c = "o" -> 111 [] c = "p" -> 112
             [] c = "q" -> 113 [] c = "r" -> 114 [] c = "t" -> 116 [] c = "x" -> 120]

Dot == <<".">>
DotDot == <<".", ".">>
Slash == <<"/">>

RECURSIVE StrLess(_, _)
\* a < b for Go strings: bytewise lexicographic
StrLess(a, b) ==
  IF a = <<>> THEN b # <<>>
  ELSE IF b = <<>> THEN FALSE
  ELSE IF a[1] = b[1] THEN StrLess(Tail(a), Tail(b))
  ELSE Code[a[1]] < Code[b[1]]

RECURSIVE SortStrings(_)
\* sort.Strings applied to the elements of S, as a sequence
SortStrings(S) ==
  IF S = {} THEN <<>>
  ELSE LET least == CHOOSE s \in S : \A t \in S \ {s} : StrLess(s, t)
       IN  <<least>> \o SortStrings(S \ {least})

IsSorted(seq) == \A i \in 1..(Len(seq) - 1) : StrLess(seq[i], seq[i + 1])

Range(seq) == {seq[i] : i \in 1..Len(seq)}

(***************************************************************************)
(* storagepath.                                                            *)
(***************************************************************************)
RECURSIVE SplitFrom(_, _, _)
SplitFrom(path, i, cur) ==
  IF i > Len(path) THEN <<cur>>
  ELSE IF path[i] = "/" THEN <<cur>> \o SplitFrom(path, i + 1, <<>>)
  ELSE SplitFrom(path, i + 1, Append(cur, path[i]))

\* the elements of path between its separators
Split(path) == SplitFrom(path, 1, <<>>)

RECURSIVE Join(_)
Join(segs) ==
  IF segs = <<>> THEN <<>>
  ELSE IF Len(segs) = 1 THEN segs[1]
  ELSE segs[1] \o Slash \o Join(Tail(segs))

IsAbs(path) == path # <<>> /\ path[1] = "/"

RECURSIVE CleanSegs(_, _, _)
\* filepath.Clean on the elements: drops "" and ".", resolves ".."
CleanSegs(segs, out, rooted) ==
  IF segs = <<>> THEN out
  ELSE LET s == segs[1]
           rest == Tail(segs)
       IN  IF s = <<>> \/ s = Dot THEN CleanSegs(rest, out, rooted)
           ELSE IF s = DotDot
             THEN IF out # <<>> /\ out[Len(out)] # DotDot
                    THEN CleanSegs(rest, SubSeq(out, 1, Len(out) - 1), rooted)
                  ELSE IF rooted THEN CleanSegs(rest, out, rooted)
                  ELSE CleanSegs(rest, Append(out, s), rooted)
           ELSE CleanSegs(rest, Append(out, s), rooted)

\* storagepath.Normalize: filepath.Clean with forward slashes
Normalize(path) ==
  LET segs == CleanSegs(Split(path), <<>>, IsAbs(path))
  IN  IF IsAbs(path) THEN Slash \o Join(segs)
      ELSE IF segs = <<>> THEN Dot
      ELSE Join(segs)

\* storagepath.NormalizeAndValidate: the normalized path, or an error when it
\* is absolute or leaves the context directory
NormalizeAndValidate(path) ==
  LET n == Normalize(path)
  IN  IF IsAbs(n) \/ Split(n)[1] = DotDot
        THEN [err |-> TRUE, path |-> <<>>]
        ELSE [err |-> FALSE, path |-> n]

\* the elements of a normalized relative path, "." having none
Elems(path) == IF path = Dot THEN <<>> ELSE Split(path)

RECURSIVE CommonLen(_, _)
CommonLen(a, b) ==
  IF a = <<>> \/ b = <<>> \/ a[1] # b[1] THEN 0
  ELSE 1 + CommonLen(Tail(a), Tail(b))

\* storagepath.Rel: targpath relative to basepath (filepath.Rel, normalized)
Rel(basepath, targpath) ==
  IF IsAbs(basepath) # IsAbs(targpath)
    THEN [err |-> TRUE, path |-> <<>>]
  ELSE LET b == Elems(Normalize(basepath))
           t == Elems(Normalize(targpath))
           k == CommonLen(b, t)
           ups == [i \in 1..(Len(b) - k) |-> DotDot]
           segs == ups \o SubSeq(t, k + 1, Len(t))
       IN  [err |-> FALSE, path |-> IF segs = <<>> THEN Dot ELSE Join(segs)]

\* storagepath.Ext: the suffix of the last element from its last dot
Ext(path) ==
  LET last == Split(path)[Len(Split(path))]
      dots == {i \in 1..Len(last) : last[i] = "."}
  IN  IF dots = {} THEN <<>>
      ELSE SubSeq(last, CHOOSE i \in dots : \A j \in dots : j <= i, Len(last))

\* storagepath.Dir: the path without its last element, "." when it has one
Dir(path) ==
  LET segs == Split(path)
  IN  IF Len(segs) <= 1 THEN Dot
      ELSE Normalize(Join(SubSeq(segs, 1, Len(segs) - 1)))

RECURSIVE Ancestors(_)
\* path and every directory above it, up to "."
Ancestors(path) ==
  IF path = Dot \/ path = Slash THEN {path}
  ELSE {path} \cup Ancestors(Dir(path))

\* storagepath.MapMatches: the keys of m that are path or contain it
MapMatches(m, path) == m \cap Ancestors(path)

\* storagepath.MapContainsMatch
MapContainsMatch(m, path) == MapMatches(m, path) # {}

\* utilstring.SliceToMap
SliceToMap(s) == Range(s)

(***************************************************************************)
(* The paths of the model.                                                 *)
(***************************************************************************)
ProtoExt == <<".", "p", "r", "o", "t", "o">>

dirP == <<"p">>
dirQ == <<"q">>
dirPX == <<"p", "/", "x">>

\* p/a.proto
fileA == <<"p", "/", "a">> \o ProtoExt
\* q/a.proto
fileB == <<"q", "/", "a">> \o ProtoExt
\* p/x/a.proto
fileX == dirPX \o <<"/", "a">> \o ProtoExt
\* r/a.proto, under no root
fileR == <<"r", "/", "a">> \o ProtoExt
\* p/b.txt
fileT == <<"p", "/", "b", ".", "t", "x", "t">>
\* q/b.PROTO
fileU == <<"q", "/", "b", ".", "P", "R", "O", "T", "O">>

\* ./p/a.proto, which normalizes to p/a.proto
rawA == <<".", "/">> \o fileA
\* ../p, which leaves the context directory
rawUp == <<".", ".", "/", "p">>

\* the files a bucket may hold
FileUniverse == {fileA, fileB, fileX, fileR, fileT, fileU}
\* the real file paths a caller may name
RawPaths == {fileA, rawA, fileB, fileR, fileT, rawUp}
\* the roots a caller may configure; the last one nests a root in another
RootConfigs == {<<dirP>>, <<dirP, <<".", "/", "q">> >>, <<dirPX, dirQ>>, <<dirP, dirPX>>}
\* the excludes a caller may configure
ExcludeConfigs == {<<>>, <<dirPX>>, <<dirP>>, <<dirP, dirQ>>}
\* the sets of paths whose Stat fails with an error other than does-not-exist
StatErrChoices == {{}, {fileB}}

SeqsUpTo(S, n) == UNION {[1..k -> S] : k \in 0..n}

(***************************************************************************)
(* Maps.                                                                   *)
(***************************************************************************)
EmptyMap == [k \in {} |-> <<>>]

Put(m, k, v) == [x \in (DOMAIN m) \cup {k} |-> IF x = k THEN v ELSE m[x]]

(***************************************************************************)
(* Collaborators outside the provider.                                     *)
(***************************************************************************)
\* newConfig: roots and excludes normalized; an error when a path is invalid
\* or a root is, contains or lies within another root
newConfig(rawRoots, rawExcludes) ==
  LET nr == [i \in DOMAIN rawRoots |-> NormalizeAndValidate(rawRoots[i])]
      ne == [i \in DOMAIN rawExcludes |-> NormalizeAndValidate(rawExcludes[i])]
      bad == \/ rawRoots = <<>>
             \/ \E i \in DOMAIN nr : nr[i].err
             \/ \E i \in DOMAIN ne : ne[i].err
             \/ \E i, j \in DOMAIN nr :
                  i # j /\ ~nr[i].err /\ ~nr[j].err /\ nr[i].path \in Ancestors(nr[j].path)
  IN  IF bad THEN [err |-> TRUE, Roots |-> <<>>, Excludes |-> <<>>]
      ELSE [err |-> FALSE,
            Roots |-> [i \in DOMAIN nr |-> nr[i].path],
            Excludes |-> [i \in DOMAIN ne |-> ne[i].path]]

NoConfig == [err |-> TRUE, Roots |-> <<>>, Excludes |-> <<>>]

\* newProtoFileSet: the container of the roots and the final map
newProtoFileSet(cfgRoots, m) == [ok |-> TRUE, roots |-> cfgRoots, files |-> m]

\* the nil ProtoFileSet returned beside an error
Nil == [ok |-> FALSE, roots |-> <<>>, files |-> EmptyMap]

\* bucket.Walk: the real paths of the bucket under root
WalkPaths(b, root) == {f \in b : root \in Ancestors(Dir(f))}

\* bucket.Stat and storage.IsNotExist on its error
Stat(b, broken, path) ==
  IF path \in broken THEN "error"
  ELSE IF path \in b THEN "ok"
  ELSE "not_exist"

(***************************************************************************)
(* Errors the provider returns.                                            *)
(***************************************************************************)
NoErr == [kind |-> "", paths |-> <<>>]
Err(kind) == [kind |-> kind, paths |-> <<>>]
ErrPaths(kind, paths) == [kind |-> kind, paths |-> paths]

ErrConfig == "invalid config"
ErrWalk == "walk error"
ErrPath == "invalid path"
ErrNoRealFilePath == "no real file path for file path"
ErrMultipleRoots == "is within multiple roots at"
ErrNoMatchRoots == "no input files found that match roots"
ErrNoMatchRootsExcludes == "no input files found that match roots and excludes"
ErrDuplicate == "duplicate normalized file path"
ErrNotExist == "does not exist"
ErrStat == "stat error"
ErrNotWithinRoot == "is not within any root"
ErrAnotherRoot == "is within another root as"
ErrNoInputFiles == "no input files specified"

(***************************************************************************)
(* State.                                                                  *)
(***************************************************************************)
VARIABLES
  mode,                \* "bucket": GetProtoFileSetForBucket, "files": GetProtoFileSetForRealFilePaths
  roots,               \* argument roots
  excludes,            \* argument excludes
  bucket,              \* the files of the ReadBucket
  walkFail,            \* index of the root whose Walk returns an error, 0 for none
  statErr,             \* the paths whose Stat returns an error other than does-not-exist
  realFilePaths,       \* argument realFilePaths
  allowNotExist,       \* argument realFilePathsAllowNotExist
  call,                \* 1 for the first call on these arguments, 2 for the second
  prev,                \* what the first call returned
  pc,                  \* position in the function
  config,              \* local config
  rootIdx,             \* index of the root being walked
  pending,             \* real paths the current Walk has still to visit
  rootFilePathToRealFilePathMap,  \* local of that name
  toRange,             \* keys a range loop has still to visit
  rootFilePathToRealFilePath,     \* local of that name
  filteredRootFilePathToRealFilePath,  \* local of that name
  idx,                 \* index into realFilePaths
  normalizedRealFilePaths,        \* local of that name
  statCalls,           \* the paths given to bucket.Stat so far in this call
  result,              \* returned ProtoFileSet
  err                  \* returned error

inputs == <<mode, roots, excludes, bucket, walkFail, statErr, realFilePaths, allowNotExist>>
calls == <<call, prev>>
scanLocals == <<rootIdx, pending, rootFilePathToRealFilePathMap, filteredRootFilePathToRealFilePath>>
fileLocals == <<idx, normalizedRealFilePaths, statCalls>>
vars == <<inputs, calls, pc, config, scanLocals, fileLocals, toRange,
          rootFilePathToRealFilePath, result, err>>

NoPrev == [ok |-> FALSE, files |-> EmptyMap, excludes |-> <<>>]

Locals0 ==
  /\ pc = "config"
  /\ config = NoConfig
  /\ rootIdx = 1
  /\ pending = {}
  /\ rootFilePathToRealFilePathMap = EmptyMap
  /\ toRange = {}
  /\ rootFilePathToRealFilePath = EmptyMap
  /\ filteredRootFilePathToRealFilePath = EmptyMap
  /\ idx = 1
  /\ normalizedRealFilePaths = {}
  /\ statCalls = <<>>
  /\ result = Nil
  /\ err = NoErr

\* the normalized forms of the named paths that are valid
Named(paths) ==
  {NormalizeAndValidate(paths[i]).path :
     i \in {j \in DOMAIN paths : ~NormalizeAndValidate(paths[j]).err}}

InitBucket ==
  /\ mode = "bucket"
  /\ roots \in RootConfigs
  /\ excludes \in ExcludeConfigs
  /\ bucket \in {b \in SUBSET FileUniverse : Cardinality(b) <= MaxFiles}
  /\ walkFail \in 0..Len(roots)
  /\ statErr = {}
  /\ realFilePaths = <<>>
  /\ allowNotExist = FALSE

\* the explicit mode consults the bucket for the named paths alone
InitFiles ==
  /\ mode = "files"
  /\ roots \in RootConfigs
  /\ excludes = <<>>
  /\ realFilePaths \in SeqsUpTo(RawPaths, MaxPaths)
  /\ bucket \in {b \in SUBSET (Named(realFilePaths) \cap FileUniverse) :
                   Cardinality(b) <= MaxFiles}
  /\ walkFail = 0
  /\ statErr \in StatErrChoices
  /\ allowNotExist \in BOOLEAN

Init ==
  /\ InitBucket \/ InitFiles
  /\ call = 1
  /\ prev = NoPrev
  /\ Locals0

Fail(e) ==
  /\ err' = e
  /\ result' = Nil
  /\ pc' = "done"

Return(m) ==
  /\ err' = NoErr
  /\ result' = newProtoFileSet(config.Roots, m)
  /\ pc' = "done"

(***************************************************************************)
(* GetProtoFileSetForBucket.                                               *)
(***************************************************************************)
\* IsProtoFile with a test for any extension at all
IsProtoFileAnyExt(realFilePath) == Ext(realFilePath) # <<>>

\* the extension test of the Walk callback
IsProtoFile(realFilePath) == Ext(realFilePath) = ProtoExt

\* the callback's entry for realFilePath under rootFilePath
AddRealFilePath(m, rootFilePath, realFilePath) ==
  Put(m, rootFilePath,
      (IF rootFilePath \in DOMAIN m THEN m[rootFilePath] ELSE {}) \cup {realFilePath})

\* CollapseEntry keeping the first of several real paths
CollapseEntryPickFirst(realFilePathSet) ==
  IF Cardinality(realFilePathSet) = 0
    THEN [e |-> Err(ErrNoRealFilePath), val |-> <<>>]
    ELSE [e |-> NoErr, val |-> SortStrings(realFilePathSet)[1]]

\* the switch on the number of real paths of one rootFilePath
CollapseEntry(realFilePathSet) ==
  CASE Cardinality(realFilePathSet) = 0 ->
         [e |-> Err(ErrNoRealFilePath), val |-> <<>>]
    [] Cardinality(realFilePathSet) = 1 ->
         [e |-> NoErr, val |-> CHOOSE f \in realFilePathSet : TRUE]
    [] OTHER ->
         [e |-> ErrPaths(ErrMultipleRoots, SortStrings(realFilePathSet)), val |-> <<>>]

\* IsExcluded matching the containing directory itself and nothing below it
IsExcludedExactDir(excludeMap, realFilePath) == Dir(realFilePath) \in excludeMap

\* the test of the filter loop
IsExcluded(excludeMap, realFilePath) ==
  MapContainsMatch(excludeMap, Dir(realFilePath))

\* the error of an empty result when there are no excludes
EmptyNoExcludes == Err(ErrNoMatchRoots)

\* EmptyAfterExcludes with the error of the other branch
EmptyAfterExcludesSame == Err(ErrNoMatchRoots)

\* the error of an empty result after filtering
EmptyAfterExcludes == Err(ErrNoMatchRootsExcludes)

BucketBegin ==
  /\ pc = "config"
  /\ mode = "bucket"
  /\ LET c == newConfig(roots, excludes)
     IN  IF c.err
           THEN Fail(Err(ErrConfig)) /\ UNCHANGED config
           ELSE /\ config' = c
                /\ pc' = "walk"
                /\ UNCHANGED <<result, err>>
  /\ rootIdx' = 1
  /\ rootFilePathToRealFilePathMap' = EmptyMap
  /\ UNCHANGED <<inputs, calls, pending, filteredRootFilePathToRealFilePath, fileLocals,
                 toRange, rootFilePathToRealFilePath>>

WalkBegin ==
  /\ pc = "walk"
  /\ rootIdx <= Len(config.Roots)
  /\ pending' = WalkPaths(bucket, config.Roots[rootIdx])
  /\ pc' = "visit"
  /\ UNCHANGED <<inputs, calls, config, rootIdx, rootFilePathToRealFilePathMap,
                 filteredRootFilePathToRealFilePath, fileLocals, toRange,
                 rootFilePathToRealFilePath, result, err>>

\* bucket.Walk returns an error, before, between or after its visits
WalkError ==
  /\ pc = "visit"
  /\ walkFail = rootIdx
  /\ Fail(Err(ErrWalk))
  /\ UNCHANGED <<inputs, calls, config, scanLocals, fileLocals, toRange,
                 rootFilePathToRealFilePath>>

\* one call of the Walk callback
WalkVisit ==
  /\ pc = "visit"
  /\ \E realFilePath \in pending :
       /\ pending' = pending \ {realFilePath}
       /\ IF ~IsProtoFile(realFilePath)
            THEN UNCHANGED <<pc, result, err, rootFilePathToRealFilePathMap>>
            ELSE LET rel == Rel(config.Roots[rootIdx], realFilePath)
                     norm == NormalizeAndValidate(rel.path)
                 IN  IF rel.err \/ norm.err
                       THEN Fail(Err(ErrPath)) /\ UNCHANGED rootFilePathToRealFilePathMap
                       ELSE /\ rootFilePathToRealFilePathMap' =
                                 AddRealFilePath(rootFilePathToRealFilePathMap,
                                                 norm.path, realFilePath)
                            /\ UNCHANGED <<pc, result, err>>
  /\ UNCHANGED <<inputs, calls, config, rootIdx, filteredRootFilePathToRealFilePath,
                 fileLocals, toRange, rootFilePathToRealFilePath>>

\* WalkEnd leaving the loop over the roots after the first root
WalkEndFirstRoot ==
  /\ pc = "visit"
  /\ pending = {}
  /\ walkFail # rootIdx
  /\ rootIdx' = rootIdx + 1
  /\ pc' = "collapse"
  /\ toRange' = DOMAIN rootFilePathToRealFilePathMap
  /\ rootFilePathToRealFilePath' = EmptyMap
  /\ UNCHANGED <<inputs, calls, config, pending, rootFilePathToRealFilePathMap,
                 filteredRootFilePathToRealFilePath, fileLocals, result, err>>

\* bucket.Walk returns nil; after the last root the collapse loop starts
WalkEnd ==
  /\ pc = "visit"
  /\ pending = {}
  /\ walkFail # rootIdx
  /\ rootIdx' = rootIdx + 1
  /\ IF rootIdx < Len(config.Roots)
       THEN pc' = "walk" /\ UNCHANGED <<toRange, rootFilePathToRealFilePath>>
       ELSE /\ pc' = "collapse"
            /\ toRange' = DOMAIN rootFilePathToRealFilePathMap
            /\ rootFilePathToRealFilePath' = EmptyMap
  /\ UNCHANGED <<inputs, calls, config, pending, rootFilePathToRealFilePathMap,
                 filteredRootFilePathToRealFilePath, fileLocals, result, err>>

\* one iteration of the range over rootFilePathToRealFilePathMap
CollapseStep ==
  /\ pc = "collapse"
  /\ \E rootFilePath \in toRange :
       LET r == CollapseEntry(rootFilePathToRealFilePathMap[rootFilePath])
       IN  /\ toRange' = toRange \ {rootFilePath}
           /\ IF r.e # NoErr
                THEN Fail(r.e) /\ UNCHANGED rootFilePathToRealFilePath
                ELSE /\ rootFilePathToRealFilePath' =
                          Put(rootFilePathToRealFilePath, rootFilePath, r.val)
                     /\ UNCHANGED <<pc, result, err>>
  /\ UNCHANGED <<inputs, calls, config, scanLocals, fileLocals>>

\* after the range: the return without excludes, or the start of the filter loop
CollapseEnd ==
  /\ pc = "collapse"
  /\ toRange = {}
  /\ IF Len(config.Excludes) = 0
       THEN /\ IF DOMAIN rootFilePathToRealFilePath = {}
                 THEN Fail(EmptyNoExcludes)
                 ELSE Return(rootFilePathToRealFilePath)
            /\ UNCHANGED <<toRange, filteredRootFilePathToRealFilePath>>
       ELSE /\ filteredRootFilePathToRealFilePath' = EmptyMap
            /\ toRange' = DOMAIN rootFilePathToRealFilePath
            /\ pc' = "filter"
            /\ UNCHANGED <<result, err>>
  /\ UNCHANGED <<inputs, calls, config, rootIdx, pending, rootFilePathToRealFilePathMap,
                 fileLocals, rootFilePathToRealFilePath>>

\* one iteration of the range over rootFilePathToRealFilePath
FilterStep ==
  /\ pc = "filter"
  /\ \E rootFilePath \in toRange :
       LET realFilePath == rootFilePathToRealFilePath[rootFilePath]
       IN  /\ toRange' = toRange \ {rootFilePath}
           /\ filteredRootFilePathToRealFilePath' =
                IF ~IsExcluded(SliceToMap(config.Excludes), realFilePath)
                  THEN Put(filteredRootFilePathToRealFilePath, rootFilePath, realFilePath)
                  ELSE filteredRootFilePathToRealFilePath
  /\ UNCHANGED <<inputs, calls, pc, config, rootIdx, pending, rootFilePathToRealFilePathMap,
                 fileLocals, rootFilePathToRealFilePath, result, err>>

FilterEnd ==
  /\ pc = "filter"
  /\ toRange = {}
  /\ IF DOMAIN filteredRootFilePathToRealFilePath = {}
       THEN Fail(EmptyAfterExcludes)
       ELSE Return(filteredRootFilePathToRealFilePath)
  /\ UNCHANGED <<inputs, calls, config, scanLocals, fileLocals, toRange,
                 rootFilePathToRealFilePath>>

(***************************************************************************)
(* GetProtoFileSetForRealFilePaths.                                        *)
(***************************************************************************)
\* the duplicate test of the first loop
IsDuplicate(seen, normalizedRealFilePath) == normalizedRealFilePath \in seen

\* AfterStat keeping a tolerated missing path instead of dropping it
AfterStatKeepMissing(stat, allow) ==
  IF stat = "ok" THEN "keep"
  ELSE IF stat # "not_exist" THEN "fail"
  ELSE IF ~allow THEN "fail"
  ELSE "keep"

\* what the first loop does with the outcome of bucket.Stat
AfterStat(stat, allow) ==
  IF stat = "ok" THEN "keep"
  ELSE IF stat # "not_exist" THEN "fail"
  ELSE IF ~allow THEN "fail"
  ELSE "drop"

\* ClaimRootFilePath letting the later real path replace the earlier one
ClaimRootFilePathOverwrite(m, normalizedRootFilePath, normalizedRealFilePath) ==
  [e |-> NoErr, m |-> Put(m, normalizedRootFilePath, normalizedRealFilePath)]

\* the claim of normalizedRootFilePath for normalizedRealFilePath
ClaimRootFilePath(m, normalizedRootFilePath, normalizedRealFilePath) ==
  IF normalizedRootFilePath \in DOMAIN m
    THEN [e |-> ErrPaths(ErrAnotherRoot,
                         <<normalizedRealFilePath, m[normalizedRootFilePath]>>),
          m |-> m]
    ELSE [e |-> NoErr, m |-> Put(m, normalizedRootFilePath, normalizedRealFilePath)]

FilesBegin ==
  /\ pc = "config"
  /\ mode = "files"
  /\ LET c == newConfig(roots, <<>>)
     IN  IF c.err
           THEN Fail(Err(ErrConfig)) /\ UNCHANGED config
           ELSE /\ config' = c
                /\ pc' = "stat"
                /\ UNCHANGED <<result, err>>
  /\ normalizedRealFilePaths' = {}
  /\ idx' = 1
  /\ UNCHANGED <<inputs, calls, scanLocals, statCalls, toRange, rootFilePathToRealFilePath>>

\* one iteration of the range over realFilePaths
StatStep ==
  /\ pc = "stat"
  /\ idx <= Len(realFilePaths)
  /\ idx' = idx + 1
  /\ LET norm == NormalizeAndValidate(realFilePaths[idx])
     IN  IF norm.err
           THEN /\ Fail(Err(ErrPath))
                /\ UNCHANGED <<normalizedRealFilePaths, statCalls>>
         ELSE IF IsDuplicate(normalizedRealFilePaths, norm.path)
           THEN /\ Fail(ErrPaths(ErrDuplicate, <<norm.path>>))
                /\ UNCHANGED <<normalizedRealFilePaths, statCalls>>
         ELSE LET stat == Stat(bucket, statErr, norm.path)
                  todo == AfterStat(stat, allowNotExist)
              IN  /\ statCalls' = Append(statCalls, norm.path)
                  /\ CASE todo = "fail" ->
                            /\ Fail(ErrPaths(IF stat = "not_exist" THEN ErrNotExist
                                             ELSE ErrStat, <<norm.path>>))
                            /\ UNCHANGED normalizedRealFilePaths
                       [] todo = "drop" ->
                            UNCHANGED <<normalizedRealFilePaths, pc, result, err>>
                       [] OTHER ->
                            /\ normalizedRealFilePaths' =
                                 normalizedRealFilePaths \cup {norm.path}
                            /\ UNCHANGED <<pc, result, err>>
  /\ UNCHANGED <<inputs, calls, config, scanLocals, toRange, rootFilePathToRealFilePath>>

\* after the range: the start of the range over normalizedRealFilePaths
StatEnd ==
  /\ pc = "stat"
  /\ idx > Len(realFilePaths)
  /\ toRange' = normalizedRealFilePaths
  /\ rootFilePathToRealFilePath' = EmptyMap
  /\ pc' = "match"
  /\ UNCHANGED <<inputs, calls, config, scanLocals, fileLocals, result, err>>

\* one iteration of the range over normalizedRealFilePaths
MatchStep ==
  /\ pc = "match"
  /\ \E normalizedRealFilePath \in toRange :
       LET matchingRoots == MapMatches(SliceToMap(config.Roots), normalizedRealFilePath)
       IN  /\ toRange' = toRange \ {normalizedRealFilePath}
           /\ CASE Cardinality(matchingRoots) = 0 ->
                     /\ Fail(ErrPaths(ErrNotWithinRoot, <<normalizedRealFilePath>>))
                     /\ UNCHANGED rootFilePathToRealFilePath
                [] Cardinality(matchingRoots) = 1 ->
                     LET rel == Rel(CHOOSE r \in matchingRoots : TRUE,
                                    normalizedRealFilePath)
                         norm == NormalizeAndValidate(rel.path)
                         claim == ClaimRootFilePath(rootFilePathToRealFilePath,
                                                    norm.path, normalizedRealFilePath)
                     IN  IF rel.err \/ norm.err
                           THEN Fail(Err(ErrPath)) /\ UNCHANGED rootFilePathToRealFilePath
                         ELSE IF claim.e # NoErr
                           THEN Fail(claim.e) /\ UNCHANGED rootFilePathToRealFilePath
                         ELSE /\ rootFilePathToRealFilePath' = claim.m
                              /\ UNCHANGED <<pc, result, err>>
                [] OTHER ->
                     /\ Fail(ErrPaths(ErrMultipleRoots, SortStrings(matchingRoots)))
                     /\ UNCHANGED rootFilePathToRealFilePath
  /\ UNCHANGED <<inputs, calls, config, scanLocals, fileLocals>>

\* MatchEnd without the test for an empty map
MatchEndNoEmptyTest ==
  /\ pc = "match"
  /\ toRange = {}
  /\ Return(rootFilePathToRealFilePath)
  /\ UNCHANGED <<inputs, calls, config, scanLocals, fileLocals, toRange,
                 rootFilePathToRealFilePath>>

\* after the range: the return
MatchEnd ==
  /\ pc = "match"
  /\ toRange = {}
  /\ IF DOMAIN rootFilePathToRealFilePath = {}
       THEN Fail(Err(ErrNoInputFiles))
       ELSE Return(rootFilePathToRealFilePath)
  /\ UNCHANGED <<inputs, calls, config, scanLocals, fileLocals, toRange,
                 rootFilePathToRealFilePath>>

(***************************************************************************)
(* The caller resolves the same arguments against the same bucket again.   *)
(***************************************************************************)
\* the locals of a fresh call
Enter ==
  /\ call' = 2
  /\ prev' = [ok |-> result.ok, files |-> result.files, excludes |-> excludes]
  /\ pc' = "config"
  /\ config' = NoConfig
  /\ rootIdx' = 1
  /\ pending' = {}
  /\ rootFilePathToRealFilePathMap' = EmptyMap
  /\ toRange' = {}
  /\ rootFilePathToRealFilePath' = EmptyMap
  /\ filteredRootFilePathToRealFilePath' = EmptyMap
  /\ idx' = 1
  /\ normalizedRealFilePaths' = {}
  /\ statCalls' = <<>>
  /\ result' = Nil
  /\ err' = NoErr

CallAgain ==
  /\ pc = "done"
  /\ call = 1
  /\ Enter
  /\ UNCHANGED inputs

\* the caller resolves the same roots against the same bucket without the excludes
CallWithoutExcludes ==
  /\ pc = "done"
  /\ call = 1
  /\ mode = "bucket"
  /\ excludes # <<>>
  /\ Enter
  /\ excludes' = <<>>
  /\ UNCHANGED <<mode, roots, bucket, walkFail, statErr, realFilePaths, allowNotExist>>

Next ==
  \/ BucketBegin
  \/ WalkBegin
  \/ WalkError
  \/ WalkVisit
  \/ WalkEnd
  \/ CollapseStep
  \/ CollapseEnd
  \/ FilterStep
  \/ FilterEnd
  \/ FilesBegin
  \/ StatStep
  \/ StatEnd
  \/ MatchStep
  \/ MatchEnd

\* one call
Spec == Init /\ [][Next]_vars

NextTwice ==
  \/ Next
  \/ CallAgain
  \/ CallWithoutExcludes

\* two calls on the same bucket
SpecTwice == Init /\ [][NextTwice]_vars

(***************************************************************************)
(* What the claims speak of, stated on the paths themselves and not        *)
(* through the path utilities.                                             *)
(***************************************************************************)
\* path lies under directory dir: it is dir, a separator, and more
HasPrefixDir(dir, path) ==
  /\ Len(path) > Len(dir) + 1
  /\ SubSeq(path, 1, Len(dir)) = dir
  /\ path[Len(dir) + 1] = "/"

\* path without the root and the separator before it
StripRoot(root, path) == SubSeq(path, Len(root) + 2, Len(path))

EndsWith(path, suffix) ==
  /\ Len(path) >= Len(suffix)
  /\ SubSeq(path, Len(path) - Len(suffix) + 1, Len(path)) = suffix

AsPairs(m) == {<<k, m[k]>> : k \in DOMAIN m}

Done == pc = "done"
ScanDone == Done /\ mode = "bucket" /\ ~config.err
FilesDone == Done /\ mode = "files" /\ ~config.err

\* the .proto files of the bucket under a root, each with its root
Found ==
  {rf \in Range(config.Roots) \X bucket :
     HasPrefixDir(rf[1], rf[2]) /\ EndsWith(rf[2], ProtoExt)}

\* each found file's path relative to its root, and its real path
ScanPairs == {<<StripRoot(rf[1], rf[2]), rf[2]>> : rf \in Found}

\* two roots hold a .proto file at the same relative path
Collision == \E a, b \in ScanPairs : a[1] = b[1] /\ a[2] # b[2]

\* the containing directory of path is an exclude or lies under one
UnderExclude(excl, path) == \E e \in Range(excl) : HasPrefixDir(e, path)

----------------------------------------------------------------------------
\* C1: with valid roots, no excludes, a Walk that succeeds and no two roots
\* holding a .proto file at the same relative path, the call returns exactly
\* one entry per .proto file under a root, keyed by the path relative to that
\* root and valued by the real path, and nothing else.
C1_ScanComplete ==
  (ScanDone /\ walkFail = 0 /\ config.Excludes = <<>> /\ ~Collision /\ ScanPairs # {})
    => /\ result.ok
       /\ AsPairs(result.files) = ScanPairs
       /\ Cardinality(DOMAIN result.files) = Cardinality({rf[2] : rf \in Found})

\* two roots each contribute a file, a third file is no .proto file
C1_Witness ==
  /\ ScanDone /\ result.ok /\ config.Excludes = <<>>
  /\ Len(config.Roots) = 2
  /\ \A r \in Range(config.Roots) : \E rf \in Found : rf[1] = r
  /\ \E f \in bucket : ~EndsWith(f, ProtoExt)

\* C2: when two roots hold a .proto file at the same relative path the call
\* returns no ProtoFileSet, and when the Walk succeeds its error is the
\* multiple-roots error, whatever the excludes are.
C2_CollisionFails ==
  (ScanDone /\ Collision)
    => /\ ~result.ok
       /\ walkFail = 0 => err.kind = ErrMultipleRoots

\* the excludes would drop one of the colliding files
C2_Witness ==
  /\ ScanDone /\ Collision /\ err.kind = ErrMultipleRoots
  /\ \E a \in ScanPairs :
       /\ \E b \in ScanPairs : a[1] = b[1] /\ a[2] # b[2]
       /\ UnderExclude(config.Excludes, a[2])

\* C3: when the call with excludes succeeds, the call on the same roots and
\* bucket without excludes succeeds too; every entry of the first is an entry
\* of the second, and the entries missing from the first are exactly those
\* whose real path lies in an excluded directory or under one.
C3_ExcludeMonotone ==
  (ScanDone /\ call = 2 /\ prev.excludes # <<>> /\ excludes = <<>> /\ prev.ok)
    => /\ result.ok
       /\ AsPairs(prev.files) \subseteq AsPairs(result.files)
       /\ AsPairs(result.files) \ AsPairs(prev.files) =
            {kv \in AsPairs(result.files) : UnderExclude(prev.excludes, kv[2])}

\* an exclude drops an entry whose directory lies below it and keeps another
C3_Witness ==
  /\ ScanDone /\ call = 2 /\ prev.excludes # <<>> /\ excludes = <<>> /\ prev.ok
  /\ \E kv \in AsPairs(result.files) \ AsPairs(prev.files) :
       \E e \in Range(prev.excludes) : HasPrefixDir(e, Dir(kv[2]))

----------------------------------------------------------------------------
\* the named paths, normalized
Idx == DOMAIN realFilePaths
NP(i) == NormalizeAndValidate(realFilePaths[i]).path
AllValid == \A i \in Idx : ~NormalizeAndValidate(realFilePaths[i]).err
DupFree == \A i, j \in Idx : i < j => NP(i) # NP(j)

\* what the bucket says of a path
Exists(path) == path \in bucket /\ path \notin statErr
Missing(path) == path \notin bucket /\ path \notin statErr
Broken(path) == path \in statErr

\* the existence loop gives up at entry i
Stops(i) == Broken(NP(i)) \/ (Missing(NP(i)) /\ ~allowNotExist)
FirstStop(i) == Stops(i) /\ \A j \in Idx : j < i => ~Stops(j)

\* the named paths that exist
Surviving == {NP(i) : i \in {j \in Idx : Exists(NP(j))}}

\* each path of S under a root, keyed by its path relative to that root
FilePairs(S) ==
  {<<StripRoot(rp[1], rp[2]), rp[2]>> :
     rp \in {x \in Range(config.Roots) \X S : HasPrefixDir(x[1], x[2])}}

\* the surviving paths under no root
Outside == {f \in Surviving : \A r \in Range(config.Roots) : ~HasPrefixDir(r, f)}

\* two surviving paths have the same path relative to their roots
FileCollision == \E a, b \in FilePairs(Surviving) : a[1] = b[1] /\ a[2] # b[2]

\* C4: in a list without duplicates, a named path the bucket reports missing
\* makes the call fail at once when the tolerance flag is false; when it is
\* true the path is dropped and a returned set holds exactly the mappings of
\* the named paths that exist; a Stat error other than does-not-exist makes
\* the call fail at once whatever the flag.
C4_Tolerance ==
  (FilesDone /\ AllValid /\ DupFree)
    => /\ \A i \in Idx :
            FirstStop(i) =>
              /\ ~result.ok
              /\ Len(statCalls) = i
              /\ err = ErrPaths(IF Missing(NP(i)) THEN ErrNotExist ELSE ErrStat,
                                <<NP(i)>>)
       /\ (\A i \in Idx : ~Stops(i)) =>
            /\ normalizedRealFilePaths = Surviving
            /\ result.ok => AsPairs(result.files) = FilePairs(Surviving)

\* a missing path is tolerated and the others are returned
C4_Witness ==
  /\ FilesDone /\ AllValid /\ DupFree /\ allowNotExist /\ result.ok
  /\ \E i \in Idx : Missing(NP(i))

\* C5: when two named paths normalize to the same string the call fails with
\* the duplicate-path error and has given no path to bucket.Stat.
C5_DuplicateBeforeStat ==
  (FilesDone /\ AllValid /\ ~DupFree)
    => /\ err.kind = ErrDuplicate
       /\ statCalls = <<>>

\* C6 as claimed: the match-roots error when no .proto file is under any
\* root, the roots-and-excludes error only when files were found and the
\* excludes removed them all, and no empty set returned.
C6_ByCause ==
  (ScanDone /\ walkFail = 0 /\ ~Collision)
    => /\ ScanPairs = {} => err.kind = ErrNoMatchRoots
       /\ err.kind = ErrNoMatchRootsExcludes => ScanPairs # {}
       /\ result.ok => DOMAIN result.files # {}

\* C6 amended: the match-roots error is returned exactly when there are no
\* excludes and no .proto file under any root; the roots-and-excludes error
\* exactly when there are excludes and no found file outside them, also when
\* none was found at all; no empty set is returned.
C6_ByExcludes ==
  (ScanDone /\ walkFail = 0 /\ ~Collision)
    => /\ err.kind = ErrNoMatchRoots <=> (config.Excludes = <<>> /\ ScanPairs = {})
       /\ err.kind = ErrNoMatchRootsExcludes <=>
            /\ config.Excludes # <<>>
            /\ \A kv \in ScanPairs : UnderExclude(config.Excludes, kv[2])
       /\ result.ok => DOMAIN result.files # {}

\* excludes are configured and no .proto file is under any root
C6_Witness ==
  /\ ScanDone /\ walkFail = 0
  /\ config.Excludes # <<>> /\ ScanPairs = {}
  /\ err.kind = ErrNoMatchRootsExcludes

\* the existence loop runs to its end
StatPasses ==
  /\ AllValid /\ DupFree
  /\ \A i \in Idx : ~Stops(i)

\* C7 as claimed: a surviving path under no root makes the call fail with the
\* not-within-any-root error; otherwise, without a collision, the set maps
\* each surviving path's root-relative path to it; no surviving path gives
\* the no-input-files error.
C7_Explicit ==
  (FilesDone /\ StatPasses)
    => /\ Outside # {} => err.kind = ErrNotWithinRoot
       /\ (Outside = {} /\ ~FileCollision /\ Surviving # {}) =>
            result.ok /\ AsPairs(result.files) = FilePairs(Surviving)
       /\ Surviving = {} => err.kind = ErrNoInputFiles

\* C7 amended: a surviving path under no root makes the call fail, with the
\* not-within-any-root error or, when two other surviving paths collide, with
\* the collision error if the range visits them first; the rest as claimed.
C7_ExplicitAmended ==
  (FilesDone /\ StatPasses)
    => /\ Outside # {} =>
            /\ ~result.ok
            /\ \/ err.kind = ErrNotWithinRoot
               \/ FileCollision /\ err.kind = ErrAnotherRoot
       /\ (Outside = {} /\ ~FileCollision /\ Surviving # {}) =>
            result.ok /\ AsPairs(result.files) = FilePairs(Surviving)
       /\ Surviving = {} => err.kind = ErrNoInputFiles

\* a path under no root is named beside two colliding ones, and the collision
\* is what the call reports
C7_Witness ==
  /\ FilesDone /\ StatPasses
  /\ Outside # {} /\ FileCollision
  /\ err.kind = ErrAnotherRoot

\* C8: a collision error lists the colliding real paths in sorted order, in
\* the root scan and in the explicit mode.
C8_CollisionSorted ==
  (Done /\ ~config.err /\ err.kind \in {ErrMultipleRoots, ErrAnotherRoot})
    => IsSorted(err.paths)

\* C9: a second call with the same arguments on the same bucket fails if the
\* first failed, and otherwise returns a map equal to the first's.
C9_Idempotent ==
  (Done /\ call = 2 /\ prev.excludes = excludes)
    => /\ result.ok = prev.ok
       /\ result.files = prev.files

\* both calls return the same set of two entries
C9_Witness ==
  /\ Done /\ call = 2 /\ prev.excludes = excludes
  /\ result.ok /\ prev.ok
  /\ Cardinality(DOMAIN result.files) >= 2

\* C10 as claimed: every real path of a set returned by either entry point
\* ends in .proto.
C10_ProtoOnly ==
  (Done /\ result.ok)
    => \A kv \in AsPairs(result.files) : EndsWith(kv[2], ProtoExt)

\* C10 amended: every real path of a set returned by the root scan ends in
\* .proto; the explicit mode returns the named files whatever their extension.
C10_ScanProtoOnly ==
  (ScanDone /\ result.ok)
    => \A kv \in AsPairs(result.files) : EndsWith(kv[2], ProtoExt)

\* the scan returns a set although a root holds a file of another extension
C10_Witness ==
  /\ ScanDone /\ result.ok
  /\ \E f \in bucket :
       /\ ~EndsWith(f, ProtoExt)
       /\ \E r \in Range(config.Roots) : HasPrefixDir(r, f)

====
